---- MODULE Spec2Model ----
(***************************************************************************)
(* kumi::tuple: layout selection (detail::binder specializations), the     *)
(* element accessor (detail::get_leaf) and the tuple facade (operator[],   *)
(* extract, split, operator=, operator==, operator<).                      *)
(***************************************************************************)
EXTENDS Integers, Sequences, FiniteSets, TLC

(***************************************************************************)
(* Bounds of the model.                                                    *)
(***************************************************************************)
\* longest type list drawn for layout selection
MaxArity == 7
\* longest tuple drawn for the comparison operators
MaxCmpSize == 3
\* largest element value drawn for the comparison operators
MaxCmpVal == 1
\* longest heterogeneous tuple drawn for the facade operations
MaxSize == 3
\* largest element value of the facade's tuples
MaxVal == 2
\* how far past the size a requested index is drawn
ExtraIdx == 2
\* width of std::size_t in bits
SizeBits == 16
\* longest tuple drawn for cast
MaxCastSize == 2

(***************************************************************************)
(* Element types.  "int&" is a reference type, the others are values.      *)
(***************************************************************************)
LayoutTypes == {"short", "int", "int&"}

is_reference(T) == T = "int&"

\* all sequences over S of length 0..n
SeqsUpTo(S, n) == UNION {[1..k -> S] : k \in 0..n}

\* the indices 0..n-1 as a sequence
Iota(n) == [i \in 1..n |-> i - 1]

(***************************************************************************)
(* Layout selection: the partial specializations of detail::binder.        *)
(***************************************************************************)
\* std::make_index_sequence<N>, the sequence tuple hands to binder
make_index_sequence(n) == [elem |-> "size_t", idx |-> Iota(n)]

\* std::integer_sequence<int,0,...,N-1>, the sequence the optimized binders name
integer_sequence_int(n) == [elem |-> "int", idx |-> Iota(n)]

no_references(Ts) == \A i \in 1..Len(Ts) : ~is_reference(Ts[i])

all_the_same(Ts) == \A i \in 2..Len(Ts) : Ts[1] = Ts[i]

\* binder<std::integer_sequence<int,Is...>, T0, T1, Ts...>
HomogeneousBinder ==
  [name |-> "homogeneous", elem |-> "int", idxPack |-> TRUE, arity |-> 2,
   variadic |-> TRUE, layout |-> "flat"]

\* binder<std::integer_sequence<int,0,..,K-1>, T0, .., TK-1>, K in 1..6
NamedBinder(K) ==
  [name |-> "named", elem |-> "int", idxPack |-> FALSE, arity |-> K,
   variadic |-> FALSE, layout |-> "named"]

MaxNamedArity == 6

\* the generic N-ary binder (kumi/detail/binder.hpp): the fallback for every
\* argument list
GenericBinder ==
  [name |-> "generic", elem |-> "any", idxPack |-> TRUE, arity |-> 0,
   variadic |-> TRUE, layout |-> "generic"]

Binders ==
  {HomogeneousBinder, GenericBinder} \cup {NamedBinder(K) : K \in 1..MaxNamedArity}

\* the requires-clause of a specialization
binder_requires(P, Ts) ==
  CASE P.name = "homogeneous" -> all_the_same(Ts) /\ no_references(Ts)
    [] P.name = "named"       -> no_references(Ts)
    [] OTHER                  -> TRUE

\* the argument list <s, Ts...> matches the pattern of specialization P
binder_matches(P, s, Ts) ==
  /\ P.elem = "any" \/ P.elem = s.elem
  /\ P.idxPack \/ s.idx = Iota(P.arity)
  /\ IF P.variadic THEN Len(Ts) >= P.arity ELSE Len(Ts) = P.arity

\* partial ordering: the pattern of Q can be deduced from the pattern of P
at_least_as_specialized(P, Q) ==
  /\ Q.elem = "any" \/ Q.elem = P.elem
  /\ Q.idxPack \/ (~P.idxPack /\ P.arity = Q.arity)
  /\ IF Q.variadic THEN P.arity >= Q.arity
                   ELSE ~P.variadic /\ P.arity = Q.arity

more_specialized(P, Q) ==
  at_least_as_specialized(P, Q) /\ ~at_least_as_specialized(Q, P)

\* the layout binder<s, Ts...> instantiates: the matching specialization that
\* is more specialized than every other matching one
binder_layout(s, Ts) ==
  LET cand == {P \in Binders : binder_matches(P, s, Ts) /\ binder_requires(P, Ts)}
      best == {P \in cand : \A Q \in cand \ {P} : more_specialized(P, Q)}
  IN  IF Cardinality(best) = 1 THEN (CHOOSE P \in best : TRUE).layout
                               ELSE "ambiguous"

\* tuple<Ts...>::impl
tuple_impl(Ts) == binder_layout(make_index_sequence(Len(Ts)), Ts)

(***************************************************************************)
(* Comparison operators of tuple.  A tuple operand is the sequence of its  *)
(* element values; TLA+ position i+1 is element index i.                   *)
(***************************************************************************)
CmpVal == 0..MaxCmpVal

\* get<I>(t), I a 0-based index
get(t, I) == t[I + 1]

\* the fold of `order` over I = i..N-2 in operator<
RECURSIVE order_fold(_, _, _, _)
order_fold(lhs, rhs, i, res) ==
  IF i > Len(lhs) - 2 THEN res
  ELSE LET y_less_x_prev == get(rhs, i) < get(lhs, i)
           x_less_y      == get(lhs, i + 1) < get(rhs, i + 1)
       IN  order_fold(lhs, rhs, i + 1, res \/ (x_less_y /\ ~y_less_x_prev))

\* operator<(tuple const&, Other const&)
operator_less(lhs, rhs) == order_fold(lhs, rhs, 0, get(lhs, 0) < get(rhs, 0))

\* operator< is viable: Other is a sized_product_type<sizeof...(Ts)>, and the
\* body needs get<0>
less_accepts(lhs, rhs) == Len(rhs) = Len(lhs) /\ Len(lhs) >= 1

\* operator<=, operator>, operator>=
operator_less_equal(lhs, rhs) == ~operator_less(rhs, lhs)

operator_greater(lhs, rhs) == operator_less(rhs, lhs)

operator_greater_equal(lhs, rhs) == ~operator_less(lhs, rhs)

\* mutant of equal_fold: every element pair is compared, no short-circuit
equal_fold_eager(self, other, i) ==
  [res |-> \A j \in i..(Len(self) - 1) : get(self, j) = get(other, j),
   log |-> [j \in 1..(Len(self) - i) |-> i + j - 1]]

\* the fold ((get<I>(self) == get<I>(other)) && ...) from index i on: its value
\* and the indices whose element pair was compared, in evaluation order
RECURSIVE equal_fold(_, _, _)
equal_fold(self, other, i) ==
  IF i >= Len(self) THEN [res |-> TRUE, log |-> << >>]
  ELSE IF get(self, i) = get(other, i)
       THEN LET rest == equal_fold(self, other, i + 1)
            IN  [res |-> rest.res, log |-> <<i>> \o rest.log]
       ELSE [res |-> FALSE, log |-> <<i>>]

\* which operator== overload is viable: "sized" (Other has the size of the
\* tuple, which is not 0), "empty" (Other has size 0), or "none"
equal_overload(self, other) ==
  IF Len(other) = Len(self) /\ Len(self) # 0 THEN "sized"
  ELSE IF Len(other) = 0 THEN "empty"
  ELSE "none"

\* mutant of operator_equal: the fold compares with get<0>(other)
operator_equal_first_of_other(self, other) ==
  IF equal_overload(self, other) = "sized"
  THEN [res |-> \A i \in 0..(Len(self) - 1) : get(self, i) = get(other, 0),
        log |-> equal_fold(self, other, 0).log]
  ELSE [res |-> TRUE, log |-> << >>]

\* operator==(tuple const&, Other const&)
operator_equal(self, other) ==
  IF equal_overload(self, other) = "sized" THEN equal_fold(self, other, 0)
  ELSE [res |-> TRUE, log |-> << >>]

\* operator!=(tuple const&, Other const&)
operator_not_equal(self, other) ==
  IF equal_overload(self, other) = "sized" THEN ~operator_equal(self, other).res
  ELSE FALSE

(***************************************************************************)
(* Storage instances and the element accessor detail::get_leaf.            *)
(***************************************************************************)
\* element types of the tuples the facade operations run on
ValueTypes == {"short", "text"}

Val == 0..MaxVal

\* the values of an element type; "short" and "int" are integers ("short" the
\* narrower one), "text" and "cstr" are strings, 0 the empty string
ValuesOf(T) == IF T = "short" THEN 0..(MaxVal - 1) ELSE Val

\* all value lists of a type list
ValueLists(Ts) == {vs \in [1..Len(Ts) -> Val] : \A i \in 1..Len(Ts) : vs[i] \in ValuesOf(Ts[i])}

\* the smallest homogeneous list no named-field binder takes
FlatSize == MaxNamedArity + 1

MemberNames == <<"member0", "member1", "member2", "member3", "member4", "member5">>

\* binder with kumi_unique_type: T0 members[N]
flat_binder(vals) == [members |-> vals]

\* binder with kumi_specific_layout: member0 .. memberK-1
named_binder(vals) ==
  [m \in {MemberNames[i] : i \in 1..Len(vals)} |->
     vals[CHOOSE i \in 1..Len(vals) : MemberNames[i] = m]]

\* the generic binder: one leaf per index
generic_binder(vals) == [leaf |-> vals]

make_binder(layout, vals) ==
  CASE layout = "flat"  -> flat_binder(vals)
    [] layout = "named" -> named_binder(vals)
    [] OTHER            -> generic_binder(vals)

\* value categories of the argument of get_leaf / operator[] / get
Categories == {"lvalue", "rvalue", "const lvalue", "const rvalue"}

is_const(cat) == cat \in {"const lvalue", "const rvalue"}

is_lvalue(cat) == cat \in {"lvalue", "const lvalue"}

\* the four overloads of get_leaf, named by their parameter declaration
LeafOverloads == {"Binder&", "Binder&&", "Binder const&&", "Binder const&"}

\* the type deduced for Binder from an argument of category cat: Binder&&
\* is a forwarding reference, Binder& takes the argument's const
deduced_binder(F, cat) ==
  CASE F = "Binder&"  -> [const |-> is_const(cat), ref |-> FALSE]
    [] F = "Binder&&" -> [const |-> is_const(cat), ref |-> is_lvalue(cat)]
    [] OTHER          -> [const |-> FALSE, ref |-> FALSE]

\* the parameter type after substitution and reference collapsing
leaf_param(F, cat) ==
  CASE F = "Binder&"        -> [const |-> is_const(cat), rref |-> FALSE]
    [] F = "Binder&&"       -> [const |-> is_const(cat), rref |-> ~is_lvalue(cat)]
    [] F = "Binder const&&" -> [const |-> TRUE, rref |-> TRUE]
    [] OTHER                -> [const |-> TRUE, rref |-> FALSE]

\* the parameter binds to an argument of category cat
leaf_binds(F, cat) ==
  LET P == leaf_param(F, cat)
  IN  /\ is_const(cat) => P.const
      /\ IF P.rref THEN ~is_lvalue(cat) ELSE (is_lvalue(cat) \/ P.const)

\* requires requires(Binder) { typename Binder::kumi_unique_type; } (or
\* kumi_specific_layout): a reference type has no member type
leaf_requires(F, cat) == ~deduced_binder(F, cat).ref

leaf_viable(F, cat) == leaf_binds(F, cat) /\ leaf_requires(F, cat)

\* the reference binding of F is a better conversion than that of G: an
\* rvalue bound to an rvalue reference, or a less cv-qualified referent
better_binding(F, G, cat) ==
  LET P == leaf_param(F, cat)
      Q == leaf_param(G, cat)
  IN  \/ ~is_lvalue(cat) /\ P.rref /\ ~Q.rref
      \/ Q.const /\ ~P.const

\* partial ordering of the overloads as function templates
more_specialized_leaf(F, G) ==
  LET lref(H) == H \in {"Binder&", "Binder const&"}
      cv(H)   == H \in {"Binder const&&", "Binder const&"}
  IN  \/ lref(F) /\ ~lref(G)
      \/ lref(F) = lref(G) /\ cv(F) /\ ~cv(G)

\* F is a better candidate than G for an argument of category cat
better_leaf(F, G, cat) ==
  \/ better_binding(F, G, cat) /\ ~better_binding(G, F, cat)
  \/ /\ ~better_binding(F, G, cat) /\ ~better_binding(G, F, cat)
     /\ more_specialized_leaf(F, G)

\* the overloads overload resolution is left with
selected_leaf(cat) ==
  LET viable == {F \in LeafOverloads : leaf_viable(F, cat)}
  IN  {F \in viable : \A G \in viable \ {F} : better_leaf(F, G, cat)}

\* mutant of leaf_return: the const&& overload returns as the const& one
leaf_return_const_lvalue(F, cat) ==
  CASE F = "Binder&"        -> IF is_const(cat) THEN "const&" ELSE "&"
    [] F = "Binder&&"       -> IF is_const(cat) THEN "ill-formed" ELSE "&&"
    [] OTHER                -> "const&"

\* the reference overload F returns: auto& of arg.members[I], or the
\* static_cast to T&& / T const&&
leaf_return(F, cat) ==
  CASE F = "Binder&"        -> IF is_const(cat) THEN "const&" ELSE "&"
    [] F = "Binder&&"       -> IF is_const(cat) THEN "ill-formed" ELSE "&&"
    [] F = "Binder const&&" -> "const&&"
    [] OTHER                -> "const&"

\* the reference get_leaf returns, by the category of its argument
leaf_reference ==
  [cat \in Categories |->
     LET S == selected_leaf(cat)
     IN  IF Cardinality(S) = 1 THEN leaf_return(CHOOSE F \in S : TRUE, cat)
                               ELSE "ambiguous"]

\* the reference get_leaf returns for an argument of category cat
RefOf(cat) == leaf_reference[cat]

\* mutant of get_leaf_flat: every index returns the first member
get_leaf_flat_first(cat, I) == [field |-> "members", at |-> 0, ref |-> RefOf(cat)]

\* get_leaf<I> on a binder with kumi_unique_type: arg.members[I]
get_leaf_flat(cat, I) == [field |-> "members", at |-> I, ref |-> RefOf(cat)]

\* mutant of get_leaf_named: the branch for I == 1 returns member0
get_leaf_named_member0(cat, I) ==
  [field |-> IF I <= 1 THEN "member0"
             ELSE IF I <= 5 THEN MemberNames[I + 1] ELSE "void",
   at |-> 0, ref |-> RefOf(cat)]

\* get_leaf<I> on a binder with kumi_specific_layout: the if constexpr chain
get_leaf_named(cat, I) ==
  [field |-> IF I = 0 THEN "member0"
             ELSE IF I = 1 THEN "member1"
             ELSE IF I = 2 THEN "member2"
             ELSE IF I = 3 THEN "member3"
             ELSE IF I = 4 THEN "member4"
             ELSE IF I = 5 THEN "member5"
             ELSE "void",
   at |-> 0, ref |-> RefOf(cat)]

\* get_leaf<I> on the generic binder: the value of leaf I
get_leaf_generic(cat, I) == [field |-> "leaf", at |-> I, ref |-> RefOf(cat)]

\* overload resolution of get_leaf<I>(binder) by the binder's layout
get_leaf(layout, cat, I) ==
  CASE layout = "flat"  -> get_leaf_flat(cat, I)
    [] layout = "named" -> get_leaf_named(cat, I)
    [] OTHER            -> get_leaf_generic(cat, I)

\* what a read outside the storage yields
Garbage == 0 - 1

\* the reference r names an element the binder has
in_storage(impl, r) ==
  IF r.field \in {"members", "leaf"}
  THEN r.field \in DOMAIN impl /\ r.at < Len(impl[r.field])
  ELSE r.field \in DOMAIN impl

\* read through a reference returned by get_leaf
load(impl, r) ==
  IF ~in_storage(impl, r) THEN Garbage
  ELSE IF r.field \in {"members", "leaf"} THEN impl[r.field][r.at + 1]
  ELSE impl[r.field]

\* write through a reference returned by get_leaf
store(impl, r, v) ==
  IF ~in_storage(impl, r) THEN impl
  ELSE IF r.field \in {"members", "leaf"}
       THEN [impl EXCEPT ![r.field] = [@ EXCEPT ![r.at + 1] = v]]
  ELSE [impl EXCEPT ![r.field] = v]

\* the element values of a storage instance with n elements, in index order
elements(layout, n, impl) ==
  [i \in 1..n |-> load(impl, get_leaf(layout, "const lvalue", i - 1))]

(***************************************************************************)
(* The tuple facade: operator[], get, extract, split.                      *)
(***************************************************************************)
SizeMod == 2 ^ SizeBits

\* I1 - I0 in std::size_t
size_sub(I1, I0) == (I1 - I0 + SizeMod) % SizeMod

\* mutant of subscript_accepts: I <= sizeof...(Ts)
subscript_accepts_inclusive(I, n) == I <= n

\* requires(I < sizeof...(Ts)) of operator[] and of get, the same for the
\* four value categories
subscript_accepts(I, n) == I < n

\* std::tuple_element<I, tuple<Ts...>>::type
RECURSIVE tuple_element(_, _)
tuple_element(I, Ts) ==
  IF Ts = << >> THEN "undefined"
  ELSE IF I = 0 THEN Head(Ts)
  ELSE tuple_element(I - 1, Tail(Ts))

\* requires((I1 - I0) <= sizeof...(Ts)) of extract(index_t<I0>, index_t<I1>)
extract_requires(I0, I1, n) == size_sub(I1, I0) <= n

\* the body of extract instantiates for cnt elements from I0 on: every
\* tuple_element_t<N + I0, tuple> and (*this)[index<N + I0>] is well-formed
extract_body_ok(I0, cnt, Ts) ==
  \A N \in 0..(cnt - 1) :
     /\ tuple_element(N + I0, Ts) # "undefined"
     /\ subscript_accepts(N + I0, Len(Ts))

\* extract(index_t<I0>, index_t<I1>) compiles
extract_accepts(I0, I1, Ts) ==
  /\ extract_requires(I0, I1, Len(Ts))
  /\ extract_body_ok(I0, size_sub(I1, I0), Ts)

\* requires(I0 <= sizeof...(Ts)) of extract(index_t<I0>) and of split
extract1_requires(I0, n) == I0 <= n

\* mutant of extract_index: the offset I0 is dropped
extract_index_no_offset(N, I0) == N

\* the source index of element N of the extracted tuple
extract_index(N, I0) == N + I0

\* tuple<tuple_element_t<N + I0, tuple>...>{(*this)[index<N + I0>]...} for
\* N in [0, cnt)
extract_result(I0, cnt, layout, Ts, impl) ==
  [types |-> [N \in 1..cnt |-> tuple_element(extract_index(N - 1, I0), Ts)],
   vals  |-> [N \in 1..cnt |->
                load(impl, get_leaf(layout, "const lvalue", extract_index(N - 1, I0)))]]

\* the indices extract hands to operator[] and so to get_leaf
extract_leafs(I0, cnt) == {extract_index(N, I0) : N \in 0..(cnt - 1)}

\* mutant of split_second_from: the element at I0 is skipped
split_second_from_next(I0) == I0 + 1

\* the index the second part of split starts from: extract(index<I0>)
split_second_from(I0) == I0

NoTuple == [types |-> << >>, vals |-> << >>]

(***************************************************************************)
(* Cross-type assignment, tuple::operator=(tuple<Us...>).                  *)
(***************************************************************************)
\* element type U converts to element type T
convertible_to(U, T) ==
  \/ U = T
  \/ T \in {"short", "int"} /\ U \in {"short", "int"}
  \/ T = "text" /\ U \in {"text", "cstr"}

\* detail::piecewise_convertible between tuple<Ts...> and tuple<Us...>
piecewise_convertible(Ts, Us) ==
  /\ Len(Ts) = Len(Us)
  /\ \A i \in 1..Len(Ts) : convertible_to(Us[i], Ts[i])

\* mutant of assigned_value: the source value is stored unconverted
assigned_value_raw(T, U, v) == v

\* the value get<I>(*this) = get<I>(other) leaves in an element of type T
\* assigned from the value v of type U
assigned_value(T, U, v) == IF T = "short" /\ U = "int" THEN v % MaxVal ELSE v

\* the element assignment can throw: a text copied, or built from a cstr
assign_may_throw(T, U, rvalue) == T = "text" /\ (U = "cstr" \/ ~rvalue)

\* the values a source element may hold after get<I>(KUMI_FWD(other)) was
\* assigned from: a moved-from text is unspecified, possibly empty
moved_from(U, v, rvalue) == IF rvalue /\ U = "text" THEN {v, 0} ELSE {v}

\* the source element types drawn for a destination element type
SourceTypes(T) == IF T = "short" THEN {"int"} ELSE {"text", "cstr"}

SourceTypeLists(Ts) ==
  {Us \in [1..Len(Ts) -> {"int", "text", "cstr"}] :
      \A i \in 1..Len(Ts) : Us[i] \in SourceTypes(Ts[i])}

(***************************************************************************)
(* Conversion, tuple::cast<Us...>().                                       *)
(***************************************************************************)
\* element types of the tuples cast and the targets of a cast
CastTypes == {"short", "int", "text", "cstr"}

\* (!std::same_as<Ts, Us> && ...): the packs expand together, lists of
\* different lengths do not satisfy the constraint
none_the_same(Ts, Us) ==
  Len(Ts) = Len(Us) /\ \A i \in 1..Len(Ts) : Ts[i] # Us[i]

\* mutant of cast_requires: the same_as fold is missing
cast_requires_any_target(Ts, Us) ==
  /\ piecewise_convertible(Ts, Us)
  /\ Len(Us) = Len(Ts)

\* the requires-clause of cast<Us...>() on tuple<Ts...>
cast_requires(Ts, Us) ==
  /\ piecewise_convertible(Ts, Us)
  /\ Len(Us) = Len(Ts)
  /\ none_the_same(Ts, Us)

\* static_cast<U>(elem) is well-formed for an element of type T
static_cast_ok(U, T) ==
  \/ U = T
  \/ U \in {"short", "int"} /\ T \in {"short", "int"}
  \/ U = "text" /\ T = "cstr"

\* the body of cast instantiates: tuple<Us...>{static_cast<Us>(elems)...}
cast_body_ok(Ts, Us) ==
  Len(Us) = Len(Ts) /\ \A i \in 1..Len(Ts) : static_cast_ok(Us[i], Ts[i])

\* cast<Us...>() compiles
cast_accepts(Ts, Us) == cast_requires(Ts, Us) /\ cast_body_ok(Ts, Us)

\* static_cast<U>(elem): the value of type U made from the value v of type T
static_cast_value(U, T, v) == IF U = "short" /\ T = "int" THEN v % MaxVal ELSE v

\* tuple<Us...>{static_cast<Us>(elems)...}
cast_result(Ts, Us, vals) ==
  [types |-> Us,
   vals  |-> [i \in 1..Len(Us) |-> static_cast_value(Us[i], Ts[i], vals[i])]]

\* the requires-clause of operator=(tuple<Us...> const&) on tuple<Ts...>
assign_requires(Ts, Us) == piecewise_convertible(Ts, Us)

\* the target type lists drawn for a tuple of n elements
CastTargets(n) == UNION {[1..m -> CastTypes] : m \in {n - 1, n, n + 1} \cap Nat}

VARIABLES
  seq,      \* index sequence argument of the binder of the object
  types,    \* its element type list
  sel,      \* the layout selected for it, "none" before selection
  a, b, c,  \* operands of the comparison operators
  done,     \* the comparison operators evaluated so far
  out,      \* their results
  eqlog,    \* the element indices operator== compared, in order
  impl,     \* the storage instance of the object
  res,      \* the request last made of the object and its result
  leafs,    \* the indices that request handed to get_leaf
  src,      \* the source tuple of an assignment
  pc,       \* "idle", or the position of operator= in its call
  k,        \* the index operator= assigns next
  old       \* the element values of both tuples when operator= was called

layoutVars == <<seq, types, sel>>

cmpVars == <<a, b, c, done, out, eqlog>>

objVars == <<impl, res, leafs>>

asgVars == <<src, pc, k, old>>

vars == <<seq, types, sel, a, b, c, done, out, eqlog, impl, res, leafs, src, pc, k, old>>

NoOut ==
  [lt |-> FALSE, le |-> FALSE, gt |-> FALSE, ge |-> FALSE, eq |-> FALSE,
   ne |-> FALSE, lt_bc |-> FALSE, lt_ac |-> FALSE,
   eq_ba |-> FALSE, eq_aa |-> FALSE, lt_aa |-> FALSE]

NoRes == [op |-> "none"]

NoSrc == [types |-> << >>, vals |-> << >>, rvalue |-> FALSE]

NoOld == [dst |-> << >>, src |-> << >>]

LayoutIdle == seq = make_index_sequence(0) /\ types = << >> /\ sel = "none"

CmpIdle ==
  a = << >> /\ b = << >> /\ c = << >> /\ done = {} /\ out = NoOut /\ eqlog = << >>

ObjIdle == impl = generic_binder(<< >>) /\ res = NoRes /\ leafs = {}

AsgIdle == src = NoSrc /\ pc = "idle" /\ k = 0 /\ old = NoOld

(***************************************************************************)
(* Specification of layout selection: a type list is drawn, the binder is  *)
(* instantiated for it.                                                    *)
(***************************************************************************)
LayoutInit ==
  /\ types \in SeqsUpTo(LayoutTypes, MaxArity)
  /\ seq \in {make_index_sequence(Len(types)), integer_sequence_int(Len(types))}
  /\ sel = "none"
  /\ CmpIdle /\ ObjIdle /\ AsgIdle

Instantiate ==
  /\ sel = "none"
  /\ sel' = binder_layout(seq, types)
  /\ UNCHANGED <<seq, types>>
  /\ UNCHANGED <<cmpVars, objVars, asgVars>>

LayoutNext == Instantiate

SpecLayout == LayoutInit /\ [][LayoutNext]_vars

\* the binder under selection is the impl member of tuple<types...>
IsTupleImpl == seq = make_index_sequence(Len(types))

Homogeneous2to6 ==
  Len(types) \in 2..6 /\ all_the_same(types) /\ no_references(types)

\* C2: every homogeneous non-reference type list of size 2..6 selects the
\* flat-array layout for tuple<Ts...>, never the named-field layout, and the
\* selection is not ambiguous.
C2_FlatWins ==
  (sel # "none" /\ IsTupleImpl /\ Homogeneous2to6) => sel = "flat"

(***************************************************************************)
(* Specification of the comparison operators: two operands are drawn and   *)
(* the operators are evaluated on them, each once.                         *)
(***************************************************************************)
CmpInit ==
  /\ LayoutIdle /\ ObjIdle /\ AsgIdle
  /\ \E n \in 0..MaxCmpSize :
        /\ a \in [1..n -> CmpVal]
        /\ b \in [1..n -> CmpVal] \cup {<< >>}
  /\ c = << >>
  /\ done = {}
  /\ out = NoOut
  /\ eqlog = << >>

Less ==
  /\ "lt" \notin done
  /\ less_accepts(a, b)
  /\ out' = [out EXCEPT !.lt = operator_less(a, b)]
  /\ done' = done \cup {"lt"}
  /\ UNCHANGED <<a, b, c, eqlog>>
  /\ UNCHANGED <<layoutVars, objVars, asgVars>>

LessEqual ==
  /\ "le" \notin done
  /\ less_accepts(b, a)
  /\ out' = [out EXCEPT !.le = operator_less_equal(a, b)]
  /\ done' = done \cup {"le"}
  /\ UNCHANGED <<a, b, c, eqlog>>
  /\ UNCHANGED <<layoutVars, objVars, asgVars>>

Greater ==
  /\ "gt" \notin done
  /\ less_accepts(b, a)
  /\ out' = [out EXCEPT !.gt = operator_greater(a, b)]
  /\ done' = done \cup {"gt"}
  /\ UNCHANGED <<a, b, c, eqlog>>
  /\ UNCHANGED <<layoutVars, objVars, asgVars>>

GreaterEqual ==
  /\ "ge" \notin done
  /\ less_accepts(a, b)
  /\ out' = [out EXCEPT !.ge = operator_greater_equal(a, b)]
  /\ done' = done \cup {"ge"}
  /\ UNCHANGED <<a, b, c, eqlog>>
  /\ UNCHANGED <<layoutVars, objVars, asgVars>>

Equal ==
  /\ "eq" \notin done
  /\ equal_overload(a, b) # "none"
  /\ out' = [out EXCEPT !.eq = operator_equal(a, b).res]
  /\ eqlog' = operator_equal(a, b).log
  /\ done' = done \cup {"eq"}
  /\ UNCHANGED <<a, b, c>>
  /\ UNCHANGED <<layoutVars, objVars, asgVars>>

NotEqual ==
  /\ "ne" \notin done
  /\ equal_overload(a, b) # "none"
  /\ out' = [out EXCEPT !.ne = operator_not_equal(a, b)]
  /\ done' = done \cup {"ne"}
  /\ UNCHANGED <<a, b, c, eqlog>>
  /\ UNCHANGED <<layoutVars, objVars, asgVars>>

\* b == a
EqualReversed ==
  /\ "eq_ba" \notin done
  /\ equal_overload(b, a) # "none"
  /\ out' = [out EXCEPT !.eq_ba = operator_equal(b, a).res]
  /\ done' = done \cup {"eq_ba"}
  /\ UNCHANGED <<a, b, c, eqlog>>
  /\ UNCHANGED <<layoutVars, objVars, asgVars>>

\* a == a, and a < a when a has an element
SelfCompare ==
  /\ "self" \notin done
  /\ equal_overload(a, a) # "none"
  /\ out' = [out EXCEPT !.eq_aa = operator_equal(a, a).res,
                        !.lt_aa = less_accepts(a, a) /\ operator_less(a, a)]
  /\ done' = done \cup {"self"}
  /\ UNCHANGED <<a, b, c, eqlog>>
  /\ UNCHANGED <<layoutVars, objVars, asgVars>>

CmpNext ==
  \/ Less \/ LessEqual \/ Greater \/ GreaterEqual \/ Equal \/ NotEqual
  \/ EqualReversed \/ SelfCompare

SpecCmp == CmpInit /\ [][CmpNext]_vars

(***************************************************************************)
(* Specification of an ordering chain: three operands of one size are      *)
(* drawn and a < b, b < c, a < c are evaluated.                            *)
(***************************************************************************)
ChainInit ==
  /\ LayoutIdle /\ ObjIdle /\ AsgIdle
  /\ \E n \in 1..MaxCmpSize :
        /\ a \in [1..n -> CmpVal]
        /\ b \in [1..n -> CmpVal]
        /\ c \in [1..n -> CmpVal]
  /\ done = {}
  /\ out = NoOut
  /\ eqlog = << >>

Chain ==
  /\ done = {}
  /\ less_accepts(a, b) /\ less_accepts(b, c) /\ less_accepts(a, c)
  /\ out' = [out EXCEPT !.lt = operator_less(a, b),
                        !.lt_bc = operator_less(b, c),
                        !.lt_ac = operator_less(a, c)]
  /\ done' = {"chain"}
  /\ UNCHANGED <<a, b, c, eqlog>>
  /\ UNCHANGED <<layoutVars, objVars, asgVars>>

ChainNext == Chain

SpecChain == ChainInit /\ [][ChainNext]_vars

(***************************************************************************)
(* Specification of the facade: a storage instance is constructed, either  *)
(* as the impl of a tuple or as a bare binder over an int index sequence,  *)
(* and requests are made of it; or a tuple and an assignment source are    *)
(* constructed and operator= runs.  A behaviour makes one request of the   *)
(* object, and may then read the object back or compare it with the tuple  *)
(* an extract returned: every value of the object is an initial state, so  *)
(* every request is made in every state of the object.                     *)
(***************************************************************************)
FlatShape == [i \in 1..FlatSize |-> "short"]

\* the object is a tuple: its storage is tuple::impl
IsTuple == seq = make_index_sequence(Len(types))

size == Len(types)

\* the element values of the object, in index order
Elems == elements(sel, size, impl)

\* the indices requests are drawn from
Indices == 0..(size + ExtraIdx)

ObjInit ==
  /\ types \in SeqsUpTo(ValueTypes, MaxSize) \cup {FlatShape}
  /\ seq \in IF types = FlatShape
             THEN {integer_sequence_int(Len(types))}
             ELSE {make_index_sequence(Len(types)), integer_sequence_int(Len(types))}
  /\ sel = binder_layout(seq, types)
  /\ \E vs \in ValueLists(types) : impl = make_binder(sel, vs)
  /\ res = NoRes
  /\ leafs = {}
  /\ AsgIdle
  /\ CmpIdle

\* the lists of one repeated value
ConstantLists(n, S) == {[i \in 1..n |-> v] : v \in S}

AsgInit ==
  /\ types \in SeqsUpTo(ValueTypes, MaxSize) \ {<< >>}
  /\ seq = make_index_sequence(Len(types))
  /\ sel = binder_layout(seq, types)
  /\ \E vs \in ConstantLists(Len(types), ValuesOf("short")) : impl = make_binder(sel, vs)
  /\ res = NoRes
  /\ leafs = {}
  /\ \E Us \in SourceTypeLists(types), vs \in ConstantLists(Len(types), Val),
        rv \in BOOLEAN :
        /\ Us # types
        /\ src = [types |-> Us, vals |-> vs, rvalue |-> rv]
  /\ pc = "ready"
  /\ k = 0
  /\ old = NoOld
  /\ CmpIdle

Init == ObjInit \/ AsgInit

\* t[index<I>] or get<I>(t) on a tuple of category cat
Subscript ==
  /\ pc = "idle" /\ IsTuple
  /\ res.op \in {"none", "write"}
  /\ \E cat \in Categories, I \in Indices :
        LET ok == subscript_accepts(I, size)
            r  == get_leaf(sel, cat, I)
        IN  /\ res' = [op |-> "subscript", I |-> I, cat |-> cat, accepted |-> ok,
                       ref |-> IF ok THEN r.ref ELSE "none",
                       value |-> IF ok THEN load(impl, r) ELSE Garbage]
            /\ leafs' = IF ok THEN {I} ELSE {}
  /\ UNCHANGED <<impl, layoutVars, cmpVars, asgVars>>

\* get<I>(t) = v on a mutable lvalue tuple
Write ==
  /\ pc = "idle" /\ IsTuple
  /\ res.op = "none"
  /\ \E I \in Indices :
        LET ok == subscript_accepts(I, size)
        IN  \E v \in (IF ok THEN ValuesOf(tuple_element(I, types)) ELSE {0}) :
              /\ impl' = IF ok THEN store(impl, get_leaf(sel, "lvalue", I), v) ELSE impl
              /\ res' = [op |-> "write", I |-> I, v |-> v, accepted |-> ok]
              /\ leafs' = IF ok THEN {I} ELSE {}
  /\ UNCHANGED <<layoutVars, cmpVars, asgVars>>

\* get_leaf<I>(b) = v on a bare binder, I a valid index
LeafWrite ==
  /\ pc = "idle" /\ ~IsTuple
  /\ res.op = "none"
  /\ \E I \in 0..(size - 1) :
        \E v \in ValuesOf(types[I + 1]) :
           /\ impl' = store(impl, get_leaf(sel, "lvalue", I), v)
           /\ res' = [op |-> "write", I |-> I, v |-> v, accepted |-> TRUE]
           /\ leafs' = {I}
  /\ UNCHANGED <<layoutVars, cmpVars, asgVars>>

\* get_leaf<I>(b) on a bare binder of category cat, I a valid index
LeafRead ==
  /\ pc = "idle" /\ ~IsTuple
  /\ res.op \in {"none", "write"}
  /\ \E cat \in Categories, I \in 0..(size - 1) :
        LET r == get_leaf(sel, cat, I)
        IN  /\ res' = [op |-> "subscript", I |-> I, cat |-> cat, accepted |-> TRUE,
                       ref |-> r.ref, value |-> load(impl, r)]
            /\ leafs' = {I}
  /\ UNCHANGED <<impl, layoutVars, cmpVars, asgVars>>

\* t.extract(index<I0>, index<I1>)
Extract ==
  /\ pc = "idle" /\ IsTuple
  /\ res.op = "none"
  /\ \E I0 \in Indices, I1 \in Indices :
        LET ok  == extract_accepts(I0, I1, types)
            cnt == size_sub(I1, I0)
        IN  /\ res' = [op |-> "extract", form |-> "range", I0 |-> I0, I1 |-> I1,
                       accepted |-> ok,
                       result |-> IF ok THEN extract_result(I0, cnt, sel, types, impl)
                                        ELSE NoTuple]
            /\ leafs' = IF ok THEN extract_leafs(I0, cnt) ELSE {}
  /\ UNCHANGED <<impl, layoutVars, cmpVars, asgVars>>

\* t.extract(index<I0>)
ExtractFrom ==
  /\ pc = "idle" /\ IsTuple
  /\ res.op = "none"
  /\ \E I0 \in Indices :
        LET ok  == extract1_requires(I0, size)
            cnt == size_sub(size, I0)
        IN  /\ res' = [op |-> "extract", form |-> "from", I0 |-> I0, I1 |-> size,
                       accepted |-> ok,
                       result |-> IF ok THEN extract_result(I0, cnt, sel, types, impl)
                                        ELSE NoTuple]
            /\ leafs' = IF ok THEN extract_leafs(I0, cnt) ELSE {}
  /\ UNCHANGED <<impl, layoutVars, cmpVars, asgVars>>

\* t.split(index<I0>): make_tuple(extract(index<0>, index<I0>), extract(index<I0>))
Split ==
  /\ pc = "idle" /\ IsTuple
  /\ res.op = "none"
  /\ \E I0 \in Indices :
        LET from == split_second_from(I0)
            ok   == /\ extract1_requires(I0, size)
                    /\ extract_accepts(0, I0, types)
                    /\ extract1_requires(from, size)
        IN  /\ res' = [op |-> "split", I0 |-> I0, accepted |-> ok,
                       first  |-> IF ok THEN extract_result(0, size_sub(I0, 0), sel, types, impl)
                                        ELSE NoTuple,
                       second |-> IF ok THEN extract_result(from, size_sub(size, from), sel, types, impl)
                                        ELSE NoTuple]
            /\ leafs' = IF ok THEN extract_leafs(0, size_sub(I0, 0))
                                     \cup extract_leafs(from, size_sub(size, from))
                              ELSE {}
  /\ UNCHANGED <<impl, layoutVars, cmpVars, asgVars>>

\* t == u, u the tuple the last extract returned
EqualExtracted ==
  /\ pc = "idle" /\ IsTuple
  /\ res.op = "extract" /\ res.accepted
  /\ equal_overload(Elems, res.result.vals) # "none"
  /\ LET r == operator_equal(Elems, res.result.vals)
     IN  /\ res' = [op |-> "equal", other |-> res.result, result |-> r.res]
         /\ leafs' = {r.log[i] : i \in 1..Len(r.log)}
  /\ UNCHANGED <<impl, layoutVars, cmpVars, asgVars>>

\* t < u, u the tuple the last extract returned
LessExtracted ==
  /\ pc = "idle" /\ IsTuple
  /\ res.op = "extract" /\ res.accepted
  /\ less_accepts(Elems, res.result.vals)
  /\ res' = [op |-> "less", other |-> res.result,
             result |-> operator_less(Elems, res.result.vals)]
  /\ leafs' = {0} \cup UNION {{i, i + 1} : i \in 0..(size - 2)}
  /\ UNCHANGED <<impl, layoutVars, cmpVars, asgVars>>

\* dst = src is called: overload resolution on piecewise_convertible
AssignCall ==
  /\ pc = "ready"
  /\ piecewise_convertible(types, src.types)
  /\ pc' = "assign"
  /\ k' = 0
  /\ old' = [dst |-> Elems, src |-> src.vals]
  /\ UNCHANGED <<src, objVars, layoutVars, cmpVars>>

\* get<k>(*this) = get<k>(other) succeeds
AssignElement ==
  /\ pc = "assign" /\ k < size
  /\ subscript_accepts(k, size) /\ subscript_accepts(k, Len(src.types))
  /\ impl' = store(impl, get_leaf(sel, "lvalue", k),
                   assigned_value(types[k + 1], src.types[k + 1], src.vals[k + 1]))
  /\ \E m \in moved_from(src.types[k + 1], src.vals[k + 1], src.rvalue) :
        src' = [src EXCEPT !.vals[k + 1] = m]
  /\ leafs' = {k}
  /\ k' = k + 1
  /\ UNCHANGED <<res, pc, old, layoutVars, cmpVars>>

\* get<k>(*this) = get<k>(other) throws: the exception leaves operator=
AssignThrow ==
  /\ pc = "assign" /\ k < size
  /\ assign_may_throw(types[k + 1], src.types[k + 1], src.rvalue)
  /\ pc' = "thrown"
  /\ leafs' = {k}
  /\ UNCHANGED <<impl, res, src, k, old, layoutVars, cmpVars>>

\* return *this
AssignReturn ==
  /\ pc = "assign" /\ k = size
  /\ pc' = "returned"
  /\ UNCHANGED <<src, k, old, objVars, layoutVars, cmpVars>>

Next ==
  \/ Subscript \/ Write \/ LeafWrite \/ LeafRead
  \/ Extract \/ ExtractFrom \/ Split
  \/ EqualExtracted \/ LessExtracted
  \/ AssignCall \/ AssignElement \/ AssignThrow \/ AssignReturn

Spec == Init /\ [][Next]_vars

(***************************************************************************)
(* Specification of conversion: a tuple is constructed and cast<Us...>()   *)
(* or an assignment from a tuple<Us...> is requested of it.                *)
(***************************************************************************)
CastInit ==
  /\ types \in SeqsUpTo(CastTypes, MaxCastSize)
  /\ seq = make_index_sequence(Len(types))
  /\ sel = binder_layout(seq, types)
  /\ \E vs \in ValueLists(types) : impl = make_binder(sel, vs)
  /\ res = NoRes
  /\ leafs = {}
  /\ AsgIdle
  /\ CmpIdle

\* t.cast<Us...>()
Cast ==
  /\ res.op = "none"
  /\ \E Us \in CastTargets(size) :
        LET ok == cast_accepts(types, Us)
        IN  /\ res' = [op |-> "cast", Us |-> Us, accepted |-> ok,
                       result |-> IF ok THEN cast_result(types, Us, Elems) ELSE NoTuple]
            /\ leafs' = IF ok THEN 0..(size - 1) ELSE {}
  /\ UNCHANGED <<impl, layoutVars, cmpVars, asgVars>>

\* t = u for a tuple<Us...> u: overload resolution of operator=
AssignRequest ==
  /\ res.op = "none"
  /\ \E Us \in CastTargets(size) :
        res' = [op |-> "assign", Us |-> Us, accepted |-> assign_requires(types, Us)]
  /\ UNCHANGED <<impl, leafs, layoutVars, cmpVars, asgVars>>

CastNext == Cast \/ AssignRequest

SpecCast == CastInit /\ [][CastNext]_vars

(***************************************************************************)
(* Specification of the element accessor: a binder over an int index       *)
(* sequence is constructed, element i holding the value i, and get_leaf<I> *)
(* is called on it in one of the four value categories.                    *)
(***************************************************************************)
LeafTypes == {"short", "int"}

LeafInit ==
  /\ types \in SeqsUpTo(LeafTypes, MaxArity) \ {<< >>}
  /\ seq = integer_sequence_int(Len(types))
  /\ sel = binder_layout(seq, types)
  /\ impl = make_binder(sel, Iota(Len(types)))
  /\ res = NoRes
  /\ leafs = {}
  /\ AsgIdle
  /\ CmpIdle

\* get_leaf<I>(b) on a binder of category cat, I a valid index
GetLeaf ==
  /\ res.op = "none"
  /\ \E cat \in Categories, I \in 0..(size - 1) :
        LET r == get_leaf(sel, cat, I)
        IN  /\ res' = [op |-> "get_leaf", I |-> I, cat |-> cat,
                       overloads |-> selected_leaf(cat),
                       field |-> r.field, at |-> r.at, ref |-> r.ref,
                       value |-> load(impl, r)]
            /\ leafs' = {I}
  /\ UNCHANGED <<impl, layoutVars, cmpVars, asgVars>>

LeafNext == GetLeaf

SpecLeaf == LeafInit /\ [][LeafNext]_vars

(***************************************************************************)
(* Specification of the layouts side by side: three storage instances of   *)
(* one type list are constructed from the same element values, "x" over    *)
(* std::make_index_sequence, "y" over std::integer_sequence<int,0,..,N-1>   *)
(* and "z" over an int sequence that is not 0,..,N-1, and the same request *)
(* is made of each through the code of the facade.  Here seq, sel and impl *)
(* hold one value per instance, and a is the tuple as constructed.         *)
(***************************************************************************)
Instances == {"x", "y", "z"}

\* std::integer_sequence<int,0,...,0>
integer_sequence_zeros(n) == [elem |-> "int", idx |-> [i \in 1..n |-> 0]]

\* the element values of instance r, in index order
elems_of(r) == elements(sel[r], Len(types), impl[r])

EquivInit ==
  /\ \E n \in 2..MaxNamedArity :
        /\ types = [i \in 1..n |-> "int"]
        /\ seq = [r \in Instances |->
                    CASE r = "x" -> make_index_sequence(n)
                      [] r = "y" -> integer_sequence_int(n)
                      [] OTHER   -> integer_sequence_zeros(n)]
        /\ \E d \in 0..MaxCmpVal : a = [i \in 1..n |-> i - 1 + d]
  /\ sel = [r \in Instances |-> binder_layout(seq[r], types)]
  /\ impl = [r \in Instances |-> make_binder(sel[r], a)]
  /\ b = << >> /\ c = << >> /\ done = {} /\ out = NoOut /\ eqlog = << >>
  /\ res = NoRes
  /\ leafs = {}
  /\ AsgIdle

\* get<I>(t) on each instance, in category cat
EquivGet ==
  /\ res.op \in {"none", "set"}
  /\ \E cat \in Categories, I \in 0..(size - 1) :
        res' = [op |-> "get", I |-> I, cat |-> cat,
                obs |-> [r \in Instances |->
                           LET l == get_leaf(sel[r], cat, I)
                           IN  [ref |-> l.ref, value |-> load(impl[r], l)]]]
  /\ UNCHANGED <<impl, leafs, layoutVars, cmpVars, asgVars>>

\* get<I>(t) = v on each instance
EquivSet ==
  /\ res.op = "none"
  /\ \E I \in 0..(size - 1), v \in Val :
        /\ impl' = [r \in Instances |-> store(impl[r], get_leaf(sel[r], "lvalue", I), v)]
        /\ res' = [op |-> "set", I |-> I, v |-> v]
  /\ UNCHANGED <<leafs, layoutVars, cmpVars, asgVars>>

\* t.extract(index<I0>, index<I1>) on each instance
EquivExtract ==
  /\ res.op \in {"none", "set"}
  /\ \E I0 \in 0..(size + 1), I1 \in 0..(size + 1) :
        LET ok  == extract_accepts(I0, I1, types)
            cnt == size_sub(I1, I0)
        IN  res' = [op |-> "extract", I0 |-> I0, I1 |-> I1, accepted |-> ok,
                    obs |-> [r \in Instances |->
                               IF ok THEN extract_result(I0, cnt, sel[r], types, impl[r])
                                     ELSE NoTuple]]
  /\ UNCHANGED <<impl, leafs, layoutVars, cmpVars, asgVars>>

\* t == u and u == t on each instance, u the tuple as constructed
EquivEqual ==
  /\ res.op \in {"none", "set"}
  /\ res' = [op |-> "equal",
             obs |-> [r \in Instances |-> <<operator_equal(elems_of(r), a),
                                            operator_equal(a, elems_of(r))>>]]
  /\ UNCHANGED <<impl, leafs, layoutVars, cmpVars, asgVars>>

\* t < u and u < t on each instance, u the tuple as constructed
EquivLess ==
  /\ res.op \in {"none", "set"}
  /\ res' = [op |-> "less",
             obs |-> [r \in Instances |-> <<operator_less(elems_of(r), a),
                                            operator_less(a, elems_of(r))>>]]
  /\ UNCHANGED <<impl, leafs, layoutVars, cmpVars, asgVars>>

EquivNext == EquivGet \/ EquivSet \/ EquivExtract \/ EquivEqual \/ EquivLess

SpecEquiv == EquivInit /\ [][EquivNext]_vars

\* the standard lexicographic order on sequences of one length
Lexicographic(lhs, rhs) ==
  \E i \in 1..Len(lhs) :
     /\ \A j \in 1..(i - 1) : lhs[j] = rhs[j]
     /\ lhs[i] < rhs[i]

\* C1: for tuples of one size N >= 1 over totally ordered elements, operator<
\* is true iff some index i has lhs[j] = rhs[j] for all j < i and
\* lhs[i] < rhs[i], for every N.
C1_LessIsLexicographic ==
  "lt" \in done => (out.lt <=> Lexicographic(a, b))

\* C7: operator< is transitive: a < b and b < c imply a < c.
C7_LessTransitive ==
  "chain" \in done => ((out.lt /\ out.lt_bc) => out.lt_ac)

\* the indices operator== must compare: 0 up to the first mismatch, or all
FirstMismatch(x, y) ==
  IF \E i \in 1..Len(x) : x[i] # y[i]
  THEN (CHOOSE i \in 1..Len(x) : x[i] # y[i] /\ \A j \in 1..(i - 1) : x[j] = y[j]) - 1
  ELSE Len(x) - 1

\* C8: for equal size N >= 1, operator== is true iff every element pair is
\* equal, the pairs are compared in increasing index order and none after the
\* first mismatch; for N = 0 it is true and compares nothing; operator!= is
\* the negation of operator==.
C8_EqualElementwise ==
  /\ ("eq" \in done /\ Len(a) = Len(b) /\ Len(a) >= 1) =>
        /\ out.eq <=> (\A i \in 1..Len(a) : a[i] = b[i])
        /\ eqlog = Iota(FirstMismatch(a, b) + 1)
  /\ ("eq" \in done /\ Len(a) = 0 /\ Len(b) = 0) =>
        (out.eq /\ eqlog = << >>)
  /\ ({"eq", "ne"} \subseteq done /\ Len(a) = Len(b)) => (out.ne <=> ~out.eq)

\* operator== stopped at a mismatch before the last index, and operator!= ran
C8_Witness ==
  /\ {"eq", "ne"} \subseteq done
  /\ Len(a) = 3 /\ Len(b) = 3
  /\ a[1] = b[1] /\ a[2] # b[2]
  /\ eqlog = <<0, 1>>
  /\ out.ne

\* C3: extract(I0, I1) on a tuple of size N compiles only when
\* 0 <= I0 <= I1 <= N; every other pair, I0 = I1 > N included, is rejected.
C3_ExtractOnlyInRange ==
  (res.op = "extract" /\ res.form = "range" /\ res.accepted) =>
     (res.I0 <= res.I1 /\ res.I1 <= size)

\* the value an element of type T holds once assigned the value v of type U
ValueFrom(T, U, v) == IF T = "short" THEN v % MaxVal ELSE v

\* operator= has assigned exactly the elements below k, each from the source
\* value of its index, and no other
AssignedBelow(n) ==
  /\ \A i \in 1..size :
        Elems[i] = IF i <= n THEN ValueFrom(types[i], src.types[i], old.src[i])
                             ELSE old.dst[i]
  /\ size = Len(old.dst)

\* C4 as stated: when the element assignment at index k fails, dst elements
\* 0..k-1 hold the values from src, dst elements k..size-1 their old values,
\* and src is unchanged.
C4_PartialAssignSrcUnchanged ==
  pc = "thrown" => (AssignedBelow(k) /\ src.vals = old.src)

\* C4 amended: elements are assigned in increasing index order; at every point
\* of the call, and when the assignment at index k fails, dst elements 0..k-1
\* hold the values from src and dst elements k..size-1 their old values; src is
\* unchanged when it is a const lvalue, and when it is an rvalue its elements
\* k..size-1 are unchanged (those below k have been moved from).
C4_PartialAssign ==
  pc \in {"assign", "thrown", "returned"} =>
     /\ AssignedBelow(k)
     /\ k <= size
     /\ pc = "returned" => k = size
     /\ ~src.rvalue => src.vals = old.src
     /\ \A i \in (k + 1)..size : src.vals[i] = old.src[i]

\* operator= failed at index 1 of a const lvalue source after assigning index 0
C4_Witness ==
  /\ pc = "thrown" /\ k = 1 /\ size >= 2
  /\ ~src.rvalue
  /\ Elems[1] # old.dst[1]
  /\ Elems[2] = old.dst[2]

\* C5: for valid 0 <= I0 <= I1 <= N, extract(I0, I1) compiles and returns a
\* tuple of size I1 - I0 whose element k is element I0 + k of the original,
\* extract(0, N) compares equal to the original, and the original is unchanged.
C5_ExtractElements ==
  /\ [](  (res.op = "extract" /\ res.I0 <= res.I1 /\ res.I1 <= size) =>
             /\ res.accepted
             /\ Len(res.result.vals) = res.I1 - res.I0
             /\ Len(res.result.types) = res.I1 - res.I0
             /\ \A n \in 1..(res.I1 - res.I0) :
                   /\ res.result.vals[n] = Elems[res.I0 + n]
                   /\ res.result.types[n] = types[res.I0 + n]
             /\ (res.I0 = 0 /\ res.I1 = size) =>
                   operator_equal(res.result.vals, Elems).res )
  /\ [][ res'.op = "extract" => (impl' = impl /\ types' = types) ]_vars

\* extract(1, 3) of a 3-element tuple returned its elements 1 and 2
C5_Witness ==
  /\ res.op = "extract" /\ res.form = "range" /\ res.accepted
  /\ size = 3 /\ res.I0 = 1 /\ res.I1 = 3
  /\ res.result.vals = <<Elems[2], Elems[3]>>
  /\ Elems[1] # Elems[2]

C9_WriteThenRead ==
  /\ []( (res.op = "write" /\ res.accepted) => Elems[res.I + 1] = res.v )
  /\ [][ (res'.op = "write" /\ res'.accepted) =>
            /\ \A J \in 1..size : J # res'.I + 1 => Elems'[J] = Elems[J]
            /\ types' = types /\ sel' = sel ]_vars
  /\ [][ (res'.op = "subscript" /\ res'.accepted) =>
            /\ res'.value = Elems[res'.I + 1]
            /\ (res.op = "write" /\ res.accepted /\ res'.I = res.I) => res'.value = res.v
            /\ impl' = impl ]_vars

\* element 1 of a named-field storage of three elements was written
C9_Witness ==
  /\ res.op = "write" /\ res.accepted
  /\ sel = "named" /\ size = 3 /\ res.I = 1
  /\ Elems[2] = res.v /\ Elems[1] # res.v /\ Elems[3] # res.v

\* C10: operator[] and get compile iff I < size, in each value category, and
\* no facade operation hands get_leaf an index I >= size.
C10_LeafIndexInRange ==
  /\ (IsTuple /\ res.op \in {"subscript", "write"}) =>
        (res.accepted <=> res.I < size)
  /\ \A I \in leafs : I < size

\* a const rvalue tuple was indexed at its last element
C10_Witness ==
  /\ IsTuple /\ res.op = "subscript" /\ res.accepted
  /\ res.cat = "const rvalue" /\ res.I = size - 1
  /\ leafs = {res.I}

\* C11: cast<Us...>() on tuple<Ts...> compiles only when the sizes are equal,
\* the tuples are piecewise convertible and Us[i] differs from Ts[i] at every
\* index; a cast in which some position keeps its type is rejected, while an
\* assignment between identically typed tuples is accepted; an accepted cast
\* returns a tuple<Us...> whose element i is element i of the source converted
\* to Us[i], and leaves the source unchanged.
C11_CastDistinctTypes ==
  /\ []( (res.op = "cast" /\ res.accepted) =>
            /\ Len(res.Us) = size
            /\ \A i \in 1..size : res.Us[i] # types[i]
            /\ piecewise_convertible(types, res.Us)
            /\ res.result.types = res.Us
            /\ Len(res.result.vals) = size
            /\ \A i \in 1..size :
                  res.result.vals[i] = ValueFrom(res.Us[i], types[i], Elems[i]) )
  /\ []( (res.op = "cast" /\ Len(res.Us) = size
            /\ \E i \in 1..size : res.Us[i] = types[i]) => ~res.accepted )
  /\ []( (res.op = "assign" /\ res.Us = types) => res.accepted )
  /\ [][ res'.op = "cast" => (impl' = impl /\ types' = types) ]_vars

\* a tuple<int, short> holding the largest int was cast to tuple<short, int>
C11_Witness ==
  /\ res.op = "cast" /\ res.accepted
  /\ types = <<"int", "short">> /\ res.Us = <<"short", "int">>
  /\ Elems[1] = MaxVal
  /\ res.result.vals[1] # Elems[1]
  /\ res.result.vals[2] = Elems[2]

\* the overload and the reference the accessor contract names for a category
ContractOverload(cat) ==
  CASE cat = "lvalue"       -> "Binder&"
    [] cat = "rvalue"       -> "Binder&&"
    [] cat = "const lvalue" -> "Binder const&"
    [] OTHER                -> "Binder const&&"

ContractRef(cat) ==
  CASE cat = "lvalue"       -> "&"
    [] cat = "rvalue"       -> "&&"
    [] cat = "const lvalue" -> "const&"
    [] OTHER                -> "const&&"

\* C12: for the flat layout and every named-field arity 1..6 and every valid
\* index I, get_leaf<I> selects exactly one of its four overloads for each
\* argument category, the result is a mutable lvalue reference for a mutable
\* lvalue, an rvalue reference for a mutable rvalue, a const lvalue reference
\* for a const lvalue and a const rvalue reference for a const rvalue, and it
\* refers to element I.
C12_LeafCategoryPreserved ==
  (res.op = "get_leaf" /\ sel \in {"flat", "named"}) =>
     /\ res.overloads = {ContractOverload(res.cat)}
     /\ res.ref = ContractRef(res.cat)
     /\ res.value = res.I
     /\ IF sel = "flat" THEN res.field = "members" /\ res.at = res.I
                        ELSE res.field = MemberNames[res.I + 1]

\* member5 of a six-field binder was read through a const rvalue
C12_Witness ==
  /\ res.op = "get_leaf" /\ sel = "named" /\ size = 6
  /\ res.cat = "const rvalue" /\ res.I = 5
  /\ res.ref = "const&&" /\ res.value = 5

\* element 6 of a flat binder was read through a mutable rvalue
C12_WitnessFlat ==
  /\ res.op = "get_leaf" /\ sel = "flat" /\ size = FlatSize
  /\ res.cat = "rvalue" /\ res.I = FlatSize - 1
  /\ res.ref = "&&" /\ res.value = FlatSize - 1

\* C13: layout selection is a function of the type list that yields exactly
\* one layout for tuple<Ts...>: named-field for a list without references of
\* size 1, or of size 2..6 that is not all-identical; flat for a homogeneous
\* list without references of size > 6; generic for size 0, for a list with a
\* reference, and for a heterogeneous list of size > 6.
C13_LayoutFunction ==
  (sel # "none" /\ IsTupleImpl) =>
     /\ sel \in {"flat", "named", "generic"}
     /\ sel = binder_layout(seq, types)
     /\ ( /\ no_references(types)
          /\ \/ Len(types) = 1
             \/ Len(types) \in 2..6 /\ ~all_the_same(types) ) => sel = "named"
     /\ (no_references(types) /\ all_the_same(types) /\ Len(types) > 6) => sel = "flat"
     /\ ( \/ Len(types) = 0
          \/ ~no_references(types)
          \/ ~all_the_same(types) /\ Len(types) > 6 ) => sel = "generic"

\* C14: built from the same element values and given the same sequence of
\* get<I>, get<I> = v, extract, == and < requests, a storage in the flat
\* layout, one in the named-field layout and one in the generic layout hold
\* the same element values and return the same result at every step.
C14_LayoutInvisible ==
  /\ sel = [r \in Instances |->
              CASE r = "x" -> "generic" [] r = "y" -> "named" [] OTHER -> "flat"]
  /\ \A r \in Instances : elems_of(r) = elems_of("x")
  /\ res.op \in {"get", "extract", "equal", "less"} =>
        \A r \in Instances : res.obs[r] = res.obs["x"]
  /\ res.op = "set" => \A r \in Instances : elems_of(r)[res.I + 1] = res.v

\* after a write that changed element 4 of six, extract(1, 6) was requested
C14_Witness ==
  /\ res.op = "extract" /\ res.accepted
  /\ Len(types) = 6 /\ res.I0 = 1 /\ res.I1 = 6
  /\ elems_of("z")[5] # a[5]
  /\ res.obs["z"].vals = SubSeq(elems_of("y"), 2, 6)
  /\ sel["y"] = "named" /\ sel["z"] = "flat" /\ sel["x"] = "generic"

\* C15: for operands of one size over elements whose equality is reflexive and
\* symmetric, a == a is true and a == b has the value of b == a, also when
\* both operands are empty.
C15_EqualReflexiveSymmetric ==
  Len(a) = Len(b) =>
     /\ "self" \in done => out.eq_aa
     /\ {"eq", "eq_ba"} \subseteq done => (out.eq <=> out.eq_ba)
     /\ ({"eq", "eq_ba"} \subseteq done /\ Len(a) = 0) => (out.eq /\ out.eq_ba)

\* operands of three elements that differ only in the last were compared both
\* ways and with themselves
C15_Witness ==
  /\ {"eq", "eq_ba", "self"} \subseteq done
  /\ Len(a) = 3 /\ Len(b) = 3
  /\ a[1] = b[1] /\ a[2] = b[2] /\ a[3] # b[3]
  /\ ~out.eq /\ ~out.eq_ba /\ out.eq_aa

\* C16: operator== and operator!= apply only to operands of one size: a tuple
\* of size N >= 1 compared with a product type of size 0 does not compile,
\* and a non-empty tuple never compares equal to an empty one.
C16_EqualNeedsEqualSize ==
  /\ "eq" \in done => Len(a) = Len(b)
  /\ "ne" \in done => Len(a) = Len(b)
  /\ ("eq" \in done /\ Len(a) >= 1 /\ Len(b) = 0) => ~out.eq
  /\ ("ne" \in done /\ Len(a) >= 1 /\ Len(b) = 0) => out.ne

\* C17: for operands of one size N >= 1 over totally ordered elements,
\* operator< is irreflexive and asymmetric, a < b implies a <= b and
\* !(a >= b), and exactly one of a < b, b < a, a == b holds.
C17_LessStrictOrder ==
  (Len(a) = Len(b) /\ Len(a) >= 1) =>
     /\ "self" \in done => ~out.lt_aa
     /\ {"lt", "gt"} \subseteq done => ~(out.lt /\ out.gt)
     /\ {"lt", "le", "ge"} \subseteq done => (out.lt => (out.le /\ ~out.ge))
     /\ {"lt", "gt", "eq"} \subseteq done =>
           /\ out.lt \/ out.gt \/ out.eq
           /\ ~(out.lt /\ out.eq) /\ ~(out.gt /\ out.eq) /\ ~(out.lt /\ out.gt)

====
